---- MODULE Spec2Model ----
(***************************************************************************)
(* A model of package envconf (src/envconf.go, the documented version      *)
(* starting at line 168): the translator registry, the recursive marker    *)
(* resolution of Parser.Translate, the per-field binding pass of           *)
(* Parser.Parse and the type-directed SetFromString.                       *)
(*                                                                         *)
(* Go strings are sequences of one-character strings, so that prefix       *)
(* tests, slicing and concatenation are computed as the code computes      *)
(* them.  An error value is a record holding the format string of the      *)
(* fmt.Errorf call that built it and the arguments formatted into it.      *)
(***************************************************************************)
EXTENDS Integers, Sequences, FiniteSets, TLC

\* ------------------------------------------------------------------ bounds

\* longest free-form string handed to Translate
MaxLen == 2
\* most markers and escapes put in front of a free-form string
MaxChain == 2
\* most translator invocations followed within one Translate call
MaxCalls == 4

\* ------------------------------------------------------------ Go strings

Lower == {"a","b","c","d","e","f","g","h","i","j","k","l","m",
          "n","o","p","q","r","s","t","u","v","w","x","y","z"}
Upper == {"A","B","C","D","E","F","G","H","I","J","K","L","M",
          "N","O","P","Q","R","S","T","U","V","W","X","Y","Z"}
Digit == {"0","1","2","3","4","5","6","7","8","9"}

\* the character class [a-zA-Z0-9_\-] of reTranslate
NameChar == Lower \cup Upper \cup Digit \cup {"_", "-"}

\* strings.HasPrefix(s, prefix)
HasPrefix(s, prefix) ==
    /\ Len(s) >= Len(prefix)
    /\ SubSeq(s, 1, Len(prefix)) = prefix

\* the Go slice expression s[n:]
SliceFrom(s, n) == SubSeq(s, n + 1, Len(s))

\* all strings over alphabet A of length at most n
StringsUpTo(A, n) == UNION {[1..k -> A] : k \in 0..n}

\* ---------------------------------------------------------------- errors

NoError == [kind |-> "nil", args |-> <<>>]

\* fmt.Errorf(format, args...)
Errorf(format, args) == [kind |-> format, args |-> args]

IsNil(err) == err.kind = "nil"

\* ------------------------------------------------------------ translators

\* A translator is a function string -> (string, error).  The registry holds
\* behaviours of the kinds the package's tests register: one that appends a
\* suffix ("hello": in + "-world"), one that always fails ("err"), and one
\* that puts text in front of its input (a lookup whose result is itself a
\* value to translate).
AppendFunc(sfx) == [kind |-> "append", text |-> sfx]
PrependFunc(pfx) == [kind |-> "prepend", text |-> pfx]
FailFunc == [kind |-> "fail", text |-> <<>>]

\* TranslatorFunc.Translate: tf(in)
TranslatorFuncTranslate(tf, in) ==
    CASE tf.kind = "append"  -> [out |-> in \o tf.text, err |-> NoError]
      [] tf.kind = "prepend" -> [out |-> tf.text \o in, err |-> NoError]
      [] tf.kind = "fail"    -> [out |-> <<>>, err |-> Errorf("ERR: %s", <<in>>)]

\* reTranslate.FindStringSubmatch(val) for `^!([a-zA-Z0-9_\-]+):` : the
\* whole match and the name group, or the empty sequence without a match.
\* The name is the longest run of name characters after the "!"; ":" is no
\* name character, so no shorter run can be followed by the colon.
NameEnd(val) ==
    CHOOSE k \in 1..Len(val) :
        /\ \A j \in 2..k : val[j] \in NameChar
        /\ (k = Len(val) \/ val[k + 1] \notin NameChar)

\* the pattern with `*` for `+`: an empty name matches
FindStringSubmatchStar(val) ==
    IF /\ Len(val) >= 2
       /\ val[1] = "!"
       /\ NameEnd(val) < Len(val)
       /\ val[NameEnd(val) + 1] = ":"
    THEN << SubSeq(val, 1, NameEnd(val) + 1), SubSeq(val, 2, NameEnd(val)) >>
    ELSE << >>

FindStringSubmatch(val) ==
    IF /\ Len(val) >= 3
       /\ val[1] = "!"
       /\ NameEnd(val) >= 2
       /\ NameEnd(val) < Len(val)
       /\ val[NameEnd(val) + 1] = ":"
    THEN << SubSeq(val, 1, NameEnd(val) + 1), SubSeq(val, 2, NameEnd(val)) >>
    ELSE << >>

\* the escape stripped whole: val[2:]
UnescapeNoBang(val) == SliceFrom(val, 2)

\* the escape's result: "!" + val[2:]
Unescape(val) == <<"!">> \o SliceFrom(val, 2)

\* what one activation of Parser.Translate does: it returns (out, err) ...
Returns(out, err, called) ==
    [done |-> TRUE, out |-> out, err |-> err, next |-> <<>>, called |-> called]

\* the translator's output returned as it is, not resolved again
NoRescan(out, called) == Returns(out, NoError, called)

\* a cycle guard: an output that begins with the marker of the translator
\* that produced it is returned, not resolved again
RescanGuarded(out, called) ==
    IF HasPrefix(out, <<"!">> \o called[1].name \o <<":">>)
    THEN Returns(out, NoError, called)
    ELSE [done |-> FALSE, out |-> <<>>, err |-> NoError, next |-> out,
          called |-> called]

\* ... or ends in `return p.Translate(out)`: the same resolution on out
Rescan(out, called) ==
    [done |-> FALSE, out |-> <<>>, err |-> NoError, next |-> out, called |-> called]

\* the translator's error wrapped in a new one
TranslatorFailedWrapped(r, called) ==
    Returns(r.out, Errorf("translate: %s", <<r.err>>), called)

\* a registered translator's error: `return out, err`
TranslatorFailed(r, called) == Returns(r.out, r.err, called)

\* an unknown name taken for literal data
NoTranslatorLenient(name, val) == Returns(val, NoError, <<>>)

\* no translator under that name
NoTranslator(name, val) ==
    Returns(<<>>, Errorf("no translator named %s", <<name>>), <<>>)

\* One activation of Parser.Translate on val with registry reg.  called
\* lists the translator it invoked, if any, with the input it was given.
TranslateLevel(reg, val) ==
    IF HasPrefix(val, <<"\\", "!">>)
    THEN Returns(Unescape(val), NoError, <<>>)
    ELSE LET match == FindStringSubmatch(val) IN
         IF Len(match) # 2
         THEN Returns(val, NoError, <<>>)
         ELSE LET name   == match[2]
                  input  == SliceFrom(val, Len(match[2]) + 2)
                  called == << [name |-> name, in |-> input] >>
              IN IF name \in DOMAIN reg
                 THEN LET r == TranslatorFuncTranslate(reg[name], input) IN
                      IF ~IsNil(r.err)
                      THEN TranslatorFailed(r, called)
                      ELSE Rescan(r.out, called)
                 ELSE NoTranslator(name, val)

\* ---------------------------------------------------------- Go types

\* A Go type is a named base type under ptr levels of pointer: Hex is
\* [ptr |-> 0, name |-> "Hex"], *Hex is [ptr |-> 1, name |-> "Hex"].
Type(name) == [ptr |-> 0, name |-> name]
PointerTo(t) == [ptr |-> t.ptr + 1, name |-> t.name]
Elem(t) == [ptr |-> t.ptr - 1, name |-> t.name]

\* the named types: the ones SetFromString switches on, the package's Hex,
\* time.Duration and []byte of the tests, the tests' TestJSONStruct, and
\* Custom, a struct type with a FromEnvString method on its pointer
SwitchTypes == {"string", "bool", "int", "int64", "int32", "int16", "int8",
                "uint", "uint64", "uint32", "uint16", "uint8",
                "float64", "float32", "[]string"}
StructTypes == {"TestJSONStruct", "Custom"}
\* the types T for which *T has the method FromEnvString(string) error
SetterTypes == {"Hex", "Custom"}

\* reflect.Value.Kind() of a value of type t
Kind(t) ==
    IF t.ptr > 0 THEN "ptr"
    ELSE IF t.name \in StructTypes THEN "struct"
    ELSE IF t.name \in {"Hex", "[]byte", "[]string"} THEN "slice"
    ELSE IF t.name = "Duration" THEN "int64"
    ELSE t.name

\* fieldInterface.(SetterFromEnv): the method set of *T holds FromEnvString
\* for the types that declare it; the method set of **T is empty
IsSetterFromEnv(fi) == fi.ptr = 1 /\ fi.name \in SetterTypes

Nil == [ref |-> "nil"]
\* reflect.New / an earlier allocation: a pointer and what it points at
Pointer(ref, elem) == [ref |-> ref, elem |-> elem]

\* the zero value of a type
Zero(t) ==
    IF t.ptr > 0 THEN Nil
    ELSE CASE t.name \in {"string", "[]string", "Hex", "[]byte"} -> <<>>
           [] t.name = "bool" -> FALSE
           [] t.name = "TestJSONStruct" -> [Foo |-> <<>>, Bar |-> 0]
           [] t.name = "Custom" -> [Raw |-> <<>>]
           [] t.name \in {"float64", "float32"} ->
                 [prec |-> t.name, num |-> 0, scale |-> 0]
           [] OTHER -> 0

\* ------------------------------------------------------------- strconv

DigitSeq == <<"0", "1", "2", "3", "4", "5", "6", "7", "8", "9">>
DigitVal(c) == (CHOOSE k \in 1..10 : DigitSeq[k] = c) - 1

AllDigits(s) == \A j \in 1..Len(s) : s[j] \in Digit

RECURSIVE DecVal(_)
DecVal(s) ==
    IF s = <<>> THEN 0
    ELSE 10 * DecVal(SubSeq(s, 1, Len(s) - 1)) + DigitVal(s[Len(s)])

\* the bounds of a signed and an unsigned integer of the given width; the
\* 64-bit bounds lie beyond every number the strings of the model denote
MaxInt(bits) == CASE bits = 8 -> 127 [] bits = 16 -> 32767 [] OTHER -> 2147483647
MaxUint(bits) == CASE bits = 8 -> 255 [] bits = 16 -> 65535 [] OTHER -> 2147483647

\* *strconv.NumError
NumError(func, s, what) == [kind |-> "strconv.NumError", args |-> <<func, s, what>>]

\* strconv.ParseInt(s, 10, bits): the value and the error; a value out of
\* range comes back as the nearest bound together with the range error
ParseInt(s, bits) ==
    LET signed == Len(s) > 0 /\ s[1] \in {"+", "-"}
        digits == IF signed THEN SliceFrom(s, 1) ELSE s
        mag    == DecVal(digits)
        v      == IF signed /\ s[1] = "-" THEN 0 - mag ELSE mag
    IN IF digits = <<>> \/ ~AllDigits(digits)
       THEN [v |-> 0, err |-> NumError("ParseInt", s, "invalid syntax")]
       ELSE IF v > MaxInt(bits)
       THEN [v |-> MaxInt(bits), err |-> NumError("ParseInt", s, "value out of range")]
       ELSE IF v < 0 - MaxInt(bits) - 1
       THEN [v |-> 0 - MaxInt(bits) - 1,
             err |-> NumError("ParseInt", s, "value out of range")]
       ELSE [v |-> v, err |-> NoError]

\* strconv.Atoi(s): ParseInt at the width of int, the error under its name
Atoi(s) ==
    LET r == ParseInt(s, 64) IN
    [v |-> r.v,
     err |-> IF IsNil(r.err) THEN NoError ELSE NumError("Atoi", s, r.err.args[3])]

\* strconv.ParseUint(s, 10, bits): no sign is accepted
ParseUint(s, bits) ==
    IF s = <<>> \/ ~AllDigits(s)
    THEN [v |-> 0, err |-> NumError("ParseUint", s, "invalid syntax")]
    ELSE IF DecVal(s) > MaxUint(bits)
    THEN [v |-> MaxUint(bits), err |-> NumError("ParseUint", s, "value out of range")]
    ELSE [v |-> DecVal(s), err |-> NoError]

\* trailing zeros of a fraction dropped: 1.10 is 1.1
RECURSIVE TrimZeros(_)
TrimZeros(s) ==
    IF s # <<>> /\ s[Len(s)] = "0" THEN TrimZeros(SubSeq(s, 1, Len(s) - 1)) ELSE s

\* strconv.ParseFloat(s, bits) on decimal notation with an optional sign
\* and an optional fraction: the number num / 10^scale, rounded to the
\* precision prec.  Exponents, hexadecimal floats, "inf" and "nan" are
\* outside the strings of the model.
ParseFloat(s, prec) ==
    LET signed == Len(s) > 0 /\ s[1] \in {"+", "-"}
        body   == IF signed THEN SliceFrom(s, 1) ELSE s
        dots   == {j \in 1..Len(body) : body[j] = "."}
        dot    == IF dots = {} THEN Len(body) + 1 ELSE CHOOSE j \in dots : TRUE
        whole  == SubSeq(body, 1, dot - 1)
        frac   == TrimZeros(SliceFrom(body, dot))
        mag    == DecVal(whole \o frac)
    IN IF \/ Cardinality(dots) > 1
          \/ ~AllDigits(whole) \/ ~AllDigits(SliceFrom(body, dot))
          \/ (whole = <<>> /\ SliceFrom(body, dot) = <<>>)
       THEN [v |-> [prec |-> prec, num |-> 0, scale |-> 0],
             err |-> NumError("ParseFloat", s, "invalid syntax")]
       ELSE [v |-> [prec |-> prec,
                    num |-> IF signed /\ s[1] = "-" THEN 0 - mag ELSE mag,
                    scale |-> Len(frac)],
             err |-> NoError]

\* strings.ToLower, character by character
LowerSeq == <<"a","b","c","d","e","f","g","h","i","j","k","l","m",
              "n","o","p","q","r","s","t","u","v","w","x","y","z">>
UpperSeq == <<"A","B","C","D","E","F","G","H","I","J","K","L","M",
              "N","O","P","Q","R","S","T","U","V","W","X","Y","Z">>
ToLower(s) ==
    [j \in 1..Len(s) |->
        IF s[j] \in Upper
        THEN LowerSeq[CHOOSE k \in 1..26 : UpperSeq[k] = s[j]]
        ELSE s[j]]

\* strings.Split(s, ","): the pieces between the commas, at least one
RECURSIVE Split(_)
Split(s) ==
    LET commas == {j \in 1..Len(s) : s[j] = ","} IN
    IF commas = {} THEN << s >>
    ELSE LET c == CHOOSE j \in commas : \A k \in commas : j <= k IN
         << SubSeq(s, 1, c - 1) >> \o Split(SliceFrom(s, c))

White == {" ", "\t", "\n", "\r", "\f"}

\* strings.TrimSpace
RECURSIVE TrimSpace(_)
TrimSpace(s) ==
    IF s = <<>> THEN s
    ELSE IF s[1] \in White THEN TrimSpace(SliceFrom(s, 1))
    ELSE IF s[Len(s)] \in White THEN TrimSpace(SubSeq(s, 1, Len(s) - 1))
    ELSE s

\* the loop of the []string case without its `continue`: every trimmed piece
RECURSIVE StrippedKeepEmpty(_)
StrippedKeepEmpty(vals) ==
    IF vals = <<>> THEN <<>>
    ELSE <<TrimSpace(Head(vals))>> \o StrippedKeepEmpty(Tail(vals))

\* the loop of the []string case: the trimmed pieces that are not empty
RECURSIVE Stripped(_)
Stripped(vals) ==
    IF vals = <<>> THEN <<>>
    ELSE LET stripped == TrimSpace(Head(vals)) IN
         IF stripped = <<>> THEN Stripped(Tail(vals))
         ELSE <<stripped>> \o Stripped(Tail(vals))

\* encoding/hex
HexSeq == <<"0","1","2","3","4","5","6","7","8","9","a","b","c","d","e","f">>
IsHexDigit(c) == \E k \in 1..16 : HexSeq[k] = c
HexVal(c) == (CHOOSE k \in 1..16 : HexSeq[k] = c) - 1

\* hex.DecodeString(s): the bytes, or an error for an invalid digit or an
\* odd length
HexDecodeString(s) ==
    LET low == ToLower(s) IN
    IF \E j \in 1..Len(low) : ~IsHexDigit(low[j])
    THEN [v |-> <<>>, err |-> [kind |-> "hex.InvalidByteError", args |-> <<s>>]]
    ELSE IF Len(low) % 2 = 1
    THEN [v |-> <<>>, err |-> [kind |-> "hex.ErrLength", args |-> <<s>>]]
    ELSE [v |-> [j \in 1..(Len(low) \div 2) |->
                    16 * HexVal(low[2 * j - 1]) + HexVal(low[2 * j])],
          err |-> NoError]

\* -------------------------------------------------------- SetFromString

\* what a call leaves behind: the value of the pointee, the error, and the
\* strings handed to a FromEnvString method
Stored(v, err) == [v |-> v, err |-> err, setter |-> <<>>]

\* (*T).FromEnvString(in) on a pointee holding cur.  Hex decodes and stores
\* on success only; Custom keeps the text it is given.
FromEnvString(name, cur, in) ==
    IF name = "Hex"
    THEN LET r == HexDecodeString(in) IN
         [v |-> IF IsNil(r.err) THEN r.v ELSE cur, err |-> r.err, setter |-> <<in>>]
    ELSE [v |-> [Raw |-> in], err |-> NoError, setter |-> <<in>>]

\* the narrowing conversions int32(field64) ... after a parse at that width
Narrow(r) == Stored(r.v, r.err)

\* the type switch of SetFromString on a fieldInterface of type *name
SwitchCase(name, cur, stringVal) ==
    CASE name = "string" -> Stored(stringVal, NoError)
      [] name = "bool" -> Stored(HasPrefix(ToLower(stringVal), <<"t">>), NoError)
      [] name = "int" -> Narrow(Atoi(stringVal))
      [] name = "int64" -> Narrow(ParseInt(stringVal, 64))
      [] name = "int32" -> Narrow(ParseInt(stringVal, 32))
      [] name = "int16" -> Narrow(ParseInt(stringVal, 16))
      [] name = "int8" -> Narrow(ParseInt(stringVal, 8))
      [] name = "uint" -> Narrow(ParseUint(stringVal, 64))
      [] name = "uint64" -> Narrow(ParseUint(stringVal, 64))
      [] name = "uint32" -> Narrow(ParseUint(stringVal, 32))
      [] name = "uint16" -> Narrow(ParseUint(stringVal, 16))
      [] name = "uint8" -> Narrow(ParseUint(stringVal, 8))
      [] name = "float64" -> Narrow(ParseFloat(stringVal, "float64"))
      [] name = "float32" -> Narrow(ParseFloat(stringVal, "float32"))
      [] name = "[]string" -> Stored(Stripped(Split(stringVal)), NoError)

\* the cases of the type switch: a type switch matches the exact type
HasSwitchCase(fi) == fi.ptr = 1 /\ fi.name \in SwitchTypes

\* SetFromString(fieldInterface, stringVal), fieldInterface of type fi
\* pointing at a value cur
SetFromString(fi, cur, stringVal) ==
    IF IsSetterFromEnv(fi)
    THEN FromEnvString(fi.name, cur, stringVal)
    ELSE IF HasSwitchCase(fi)
    THEN SwitchCase(fi.name, cur, stringVal)
    ELSE Stored(cur, Errorf("unsupported type %T", <<fi>>))

\* -------------------------------------------------------- encoding/json

\* the exported fields of the struct types under their JSON names, and
\* whether each takes a number
JSONFields(name) ==
    IF name = "TestJSONStruct"
    THEN { [key |-> <<"f", "o", "o">>, field |-> "Foo", number |-> FALSE],
           [key |-> <<"b", "a", "r">>, field |-> "Bar", number |-> TRUE] }
    ELSE { [key |-> <<"r", "a", "w">>, field |-> "Raw", number |-> FALSE] }

\* the documents the model reads: the empty object and an object of one
\* member, a quoted key and an unsigned number; anything else that starts
\* with "{" is no JSON in the strings of the model
JSONClose(data) ==
    CHOOSE q \in 3..Len(data) :
        data[q] = "\"" /\ \A j \in 3..(q - 1) : data[j] # "\""

JSONOneMember(data) ==
    /\ Len(data) >= 6
    /\ data[1] = "{" /\ data[2] = "\"" /\ data[Len(data)] = "}"
    /\ \E q \in 3..Len(data) : data[q] = "\""
    /\ JSONClose(data) + 2 <= Len(data) - 1
    /\ data[JSONClose(data) + 1] = ":"
    /\ AllDigits(SubSeq(data, JSONClose(data) + 2, Len(data) - 1))

\* json.Unmarshal(data, &v) for a struct v of type name holding cur: a
\* syntax error leaves v alone; a member is matched to a field by its name
\* without regard to case, stored if the field takes a number, reported as
\* a type error if not, and ignored if no field has the name
JSONUnmarshal(data, name, cur) ==
    IF data = <<"{", "}">>
    THEN [v |-> cur, err |-> NoError]
    ELSE IF ~JSONOneMember(data)
    THEN [v |-> cur, err |-> [kind |-> "json.SyntaxError", args |-> <<>>]]
    ELSE LET key  == ToLower(SubSeq(data, 3, JSONClose(data) - 1))
             num  == DecVal(SubSeq(data, JSONClose(data) + 2, Len(data) - 1))
             hits == {f \in JSONFields(name) : f.key = key}
         IN IF hits = {} THEN [v |-> cur, err |-> NoError]
            ELSE LET f == CHOOSE f \in hits : TRUE IN
                 IF f.number
                 THEN [v |-> [cur EXCEPT ![f.field] = num], err |-> NoError]
                 ELSE [v |-> cur,
                       err |-> [kind |-> "json.UnmarshalTypeError", args |-> <<f.field>>]]

\* ----------------------------------------------------------------- Parse

\* a field's struct tag: tag.Get("env"), tag.Lookup("default") and
\* tag.Lookup("required"); an absent key reads as the empty string
Tag(env, hasDefault, default, hasRequired, required) ==
    [env |-> env, hasDefault |-> hasDefault, default |-> default,
     hasRequired |-> hasRequired, required |-> required]

\* the resolution without the `required` tag: default or failure
ResolveNoOptional(tag, envVal) ==
    IF envVal = <<>>
    THEN IF tag.hasDefault
         THEN [action |-> "use", val |-> tag.default, err |-> NoError]
         ELSE [action |-> "fail", val |-> <<>>,
               err |-> Errorf("Required ENV var not set: %v", <<tag>>)]
    ELSE [action |-> "use", val |-> envVal, err |-> NoError]

\* what the pass does with a field whose variable reads envVal: translate a
\* value, skip the field, or fail
Resolve(tag, envVal) ==
    IF envVal = <<>>
    THEN IF tag.hasDefault
         THEN [action |-> "use", val |-> tag.default, err |-> NoError]
         ELSE IF tag.hasRequired /\ tag.required = "false"
         THEN [action |-> "skip", val |-> <<>>, err |-> NoError]
         ELSE [action |-> "fail", val |-> <<>>,
               err |-> Errorf("Required ENV var not set: %v", <<tag>>)]
    ELSE [action |-> "use", val |-> envVal, err |-> NoError]

\* the error of p.Translate as Parse returns it
TranslateError(envName, err) == Errorf("In field %s: %s", <<envName, err>>)

\* the error of json.Unmarshal as Parse returns it: `return err`
UnmarshalError(envName, err) == err

\* the error of SetFromString as Parse returns it
SetError(envName, err) == Errorf("In field %s: %s", <<envName, err>>)

\* the assignment that puts the field back when it fails: validation before
\* the field is touched
AssignFieldValidateFirst(t, envName, cur, envVal) ==
    LET a ==
        LET isPointer  == Kind(t) = "ptr"
            fieldVal   == IF isPointer THEN Pointer("new", Zero(Elem(t))) ELSE cur
            actualType == IF isPointer THEN Kind(Elem(t)) ELSE Kind(t)
        IN IF actualType = "struct"
           THEN IF ~HasPrefix(envVal, <<"{">>)
                THEN [v |-> fieldVal,
                      err |-> Errorf("In field %s: struct fields should be set using JSON strings",
                                     <<envName>>),
                      setter |-> <<>>]
                ELSE LET r == JSONUnmarshal(envVal, t.name,
                                            IF isPointer THEN fieldVal.elem ELSE cur)
                     IN [v |-> IF isPointer THEN Pointer("new", r.v) ELSE r.v,
                         err |-> IF IsNil(r.err) THEN NoError
                                 ELSE UnmarshalError(envName, r.err),
                         setter |-> <<>>]
           ELSE LET r == SetFromString(PointerTo(t), fieldVal, envVal) IN
                [v |-> r.v,
                 err |-> IF IsNil(r.err) THEN NoError ELSE SetError(envName, r.err),
                 setter |-> r.setter]
    IN IF IsNil(a.err) THEN a ELSE [a EXCEPT !.v = cur]

\* what Parse does with the translated envVal for a field of type t holding
\* cur: the field's new value, the error, the strings handed to a
\* FromEnvString method.  fieldInterface, the address of the field, is
\* taken before a pointer field is given its fresh instance.
AssignField(t, envName, cur, envVal) ==
    LET isPointer  == Kind(t) = "ptr"
        fieldVal   == IF isPointer THEN Pointer("new", Zero(Elem(t))) ELSE cur
        actualType == IF isPointer THEN Kind(Elem(t)) ELSE Kind(t)
    IN IF actualType = "struct"
       THEN IF ~HasPrefix(envVal, <<"{">>)
            THEN [v |-> fieldVal,
                  err |-> Errorf("In field %s: struct fields should be set using JSON strings",
                                 <<envName>>),
                  setter |-> <<>>]
            ELSE LET r == JSONUnmarshal(envVal, t.name,
                                        IF isPointer THEN fieldVal.elem ELSE cur)
                 IN [v |-> IF isPointer THEN Pointer("new", r.v) ELSE r.v,
                     err |-> IF IsNil(r.err) THEN NoError
                             ELSE UnmarshalError(envName, r.err),
                     setter |-> <<>>]
       ELSE LET r == SetFromString(PointerTo(t), fieldVal, envVal) IN
            [v |-> r.v,
             err |-> IF IsNil(r.err) THEN NoError ELSE SetError(envName, r.err),
             setter |-> r.setter]

\* --------------------------------------------------------------- inputs

\* translator names of the registry
Names == { <<"a">>, <<"b">> }

\* what RegisterTranslatorFunc is given
TranslatorFuncs ==
    { AppendFunc(<<".">>), PrependFunc(<<".">>), FailFunc,
      PrependFunc(<<"!", "a", ":">>) }

\* characters of the free-form strings: the marker's "!" and ":", the
\* escape's backslash, a name character and one that is none
Alphabet == {"!", "\\", ":", "a", "."}

Marker(name) == <<"!">> \o name \o <<":">>

\* the pieces put in front of a free-form string: the markers naming a and
\* b (registered or not), the escape sequence, and a bare "!"
Markers == { Marker(n) : n \in Names } \cup { <<"\\", "!">>, <<"!">> }

RECURSIVE Chains(_)
Chains(n) ==
    IF n = 0 THEN { <<>> }
    ELSE Chains(n - 1) \cup { m \o c : m \in Markers, c \in Chains(n - 1) }

TranslateInputs ==
    { c \o s : c \in Chains(MaxChain), s \in StringsUpTo(Alphabet, MaxLen) }

\* most fields of a struct handed to Parse
MaxFields == 2

\* the parser of the tests: New(), then "hello" (here a) and "err" (here b)
TestParser ==
    [n \in Names |-> IF n = <<"a">> THEN AppendFunc(<<".">>) ELSE FailFunc]

Field(tag, type, prior) == [tag |-> tag, type |-> type, prior |-> prior]

NoTag == Tag(<<>>, FALSE, <<>>, FALSE, "")
Required(env) == Tag(env, FALSE, <<>>, FALSE, "")
Default(env, d) == Tag(env, TRUE, d, FALSE, "")
Optional(env) == Tag(env, FALSE, <<>>, TRUE, "false")

\* the fields a struct handed to Parse is made of, each with the value it
\* holds before the call: the tag forms on a string field, and one field of
\* each type Parse tells apart
FieldDecls ==
    { Field(Required(<<"K", "1">>), Type("string"), <<"p">>),
      Field(Default(<<"K", "2">>, <<"d">>), Type("string"), <<"p">>),
      Field(Optional(<<"K", "3">>), Type("string"), <<"p">>),
      Field(Tag(<<"K", "4">>, TRUE, <<"d">>, TRUE, "false"), Type("string"), <<"p">>),
      Field(Tag(<<"K", "5">>, FALSE, <<>>, TRUE, "true"), Type("string"), <<"p">>),
      Field(NoTag, Type("string"), <<"p">>),
      Field(Required(<<"K", "6">>), Type("int8"), 7),
      Field(Default(<<"K", "7">>, <<"d">>), Type("[]byte"), <<>>),
      Field(Required(<<"K", "8">>), Type("TestJSONStruct"),
            [Foo |-> <<"p">>, Bar |-> 7]),
      Field(Optional(<<"K", "9">>), PointerTo(Type("TestJSONStruct")), Nil),
      Field(Optional(<<"K", "A">>), PointerTo(Type("TestJSONStruct")),
            Pointer("old", [Foo |-> <<"p">>, Bar |-> 7])),
      Field(Required(<<"K", "B">>), Type("Hex"), <<7>>),
      Field(Required(<<"K", "C">>), Type("Custom"), [Raw |-> <<"p">>]),
      Field(Required(<<"K", "D">>), PointerTo(Type("Custom")), Nil),
      Field(Required(<<"K", "E">>), PointerTo(Type("int8")), Nil) }

\* the structs handed to Parse
Structs == UNION { [1..n -> FieldDecls] : n \in 1..MaxFields }

\* what os.Getenv may return: nothing, a number, a word, a JSON object, a
\* broken one, and markers naming a, the failing b and the unknown c
EnvValues ==
    { <<>>, <<"1", "1">>, <<"x">>,
      <<"{", "\"", "b", "a", "r", "\"", ":", "5", "}">>, <<"{", "x">>,
      <<"!", "a", ":", "x">>, <<"!", "b", ":", "x">>, <<"!", "c", ":", "x">> }

\* the types SetFromString is handed a pointer to: those of its switch,
\* and Hex, time.Duration and []byte
SetTypes == SwitchTypes \cup {"Hex", "Duration", "[]byte"}

\* the strings SetFromString is handed: those of TestTypes and TestParse,
\* the empty string, a negative number, one beyond int8, a word, and lists
\* with blanks, empty pieces and a trailing comma
SetInputs ==
    { <<"1">>,
      <<"2">>,
      <<"3">>,
      <<"4">>,
      <<"5">>,
      <<"S", "t", "r", "i", "n", "g">>,
      <<"T", "r", "u", "e">>,
      <<"F", "a", "l", "s", "e">>,
      <<"1", ".", "1">>,
      <<"1", ".", "2">>,
      <<"1", "0">>,
      <<"1", "1">>,
      <<"1", "h">>,
      <<>>,
      <<"-", "1">>,
      <<"1", "2", "8">>,
      <<"x">>,
      <<"v", "a", "l", "1", ",", " ", "v", "a", "l", "2">>,
      <<" ", "a", " ", ",", ",", " ", "b">>,
      <<"b", ",", "a", " ", "c", ",">>,
      <<",">>,
      <<" ", "\t">> }

\* ---------------------------------------------------------------- state

VARIABLES
    Translators,  \* Parser.Translators: name -> translator
    pc,           \* "idle", "translate" (a Translate call is running), "done"
    arg,          \* the string the running Translate call was given
    val,          \* val of the innermost activation of Translate
    ret,          \* what the finished call returned: [out, err]
    calls,        \* the translator invocations of the call, in order
    ppc,          \* Parse: "idle", "field" (loop head), "translate", "returned"
    rt,           \* Parse: the fields of dest's type, tag and type each
    rv,           \* Parse: the fields of dest, their values
    rv0,          \* the values of dest's fields when Parse was called
    i,            \* Parse: the loop index, from 1
    got,          \* what os.Getenv returned for field i
    perr,         \* what Parse returned
    setterCalls,  \* the FromEnvString invocations of the pass: field and text
    set           \* a finished SetFromString call: the pointer's type, the
                  \* string, and what the call left behind

tvars == << pc, arg, val, ret, calls >>
pvars == << ppc, rt, rv, rv0, i, got, perr, setterCalls, set >>
vars == << Translators, pc, arg, val, ret, calls,
           ppc, rt, rv, rv0, i, got, perr, setterCalls, set >>

NoReturn == [out |-> <<>>, err |-> NoError]

NoSet == [fi |-> Type(""), in |-> <<>>, res |-> Stored(0, NoError)]

TranslateIdle ==
    /\ pc = "idle"
    /\ arg = <<>>
    /\ val = <<>>
    /\ ret = NoReturn
    /\ calls = <<>>

ParseIdle ==
    /\ ppc = "idle"
    /\ rt = <<>>
    /\ rv = <<>>
    /\ rv0 = <<>>
    /\ i = 0
    /\ got = <<>>
    /\ perr = NoError
    /\ setterCalls = <<>>
    /\ set = NoSet

\* the Translate call is over and forgotten
ResetTranslate ==
    /\ pc' = "idle"
    /\ arg' = <<>>
    /\ val' = <<>>
    /\ ret' = NoReturn
    /\ calls' = <<>>

\* the Parse call is over and forgotten
ResetParse ==
    /\ ppc' = "idle"
    /\ rt' = <<>>
    /\ rv' = <<>>
    /\ rv0' = <<>>
    /\ i' = 0
    /\ got' = <<>>
    /\ perr' = NoError
    /\ setterCalls' = <<>>
    /\ set' = NoSet

\* New(): a parser with an empty translator set
Init ==
    /\ Translators = << >>
    /\ TranslateIdle
    /\ ParseIdle

\* p.RegisterTranslatorFunc(name, translator): adds or replaces
RegisterTranslatorFunc ==
    /\ pc = "idle" /\ ppc = "idle"
    /\ \E name \in Names, translator \in TranslatorFuncs :
         Translators' = [n \in (DOMAIN Translators) \cup {name} |->
                            IF n = name THEN translator ELSE Translators[n]]
    /\ UNCHANGED tvars
    /\ UNCHANGED pvars

\* a caller enters p.Translate(in)
TranslateCall ==
    /\ pc = "idle" /\ ppc = "idle"
    /\ pc' = "translate"
    /\ \E in \in TranslateInputs :
         /\ arg' = in
         /\ val' = in
    /\ ret' = NoReturn
    /\ calls' = <<>>
    /\ UNCHANGED Translators
    /\ UNCHANGED pvars

\* the innermost activation of Translate runs: it returns, and with it every
\* activation above it (each is `return p.Translate(out)`), or it recurses
TranslateStep ==
    /\ pc = "translate"
    /\ Len(calls) < MaxCalls
    /\ LET lv == TranslateLevel(Translators, val) IN
        /\ calls' = calls \o lv.called
        /\ IF lv.done
           THEN /\ pc' = "done"
                /\ ret' = [out |-> lv.out, err |-> lv.err]
                /\ val' = val
           ELSE /\ pc' = "translate"
                /\ ret' = ret
                /\ val' = lv.next
    /\ UNCHANGED << Translators, arg >>
    /\ UNCHANGED pvars

\* the caller has taken the result; the parser is at rest again
Return ==
    /\ pc = "done" /\ ppc = "idle"
    /\ ResetTranslate
    /\ UNCHANGED Translators
    /\ UNCHANGED pvars

\* a caller enters p.Parse(&dest)
ParseCall ==
    /\ pc = "idle" /\ ppc = "idle"
    /\ ppc' = "field"
    /\ \E dest \in Structs :
         /\ rt' = [j \in DOMAIN dest |-> [tag |-> dest[j].tag, type |-> dest[j].type]]
         /\ rv' = [j \in DOMAIN dest |-> dest[j].prior]
         /\ rv0' = [j \in DOMAIN dest |-> dest[j].prior]
    /\ i' = 1
    /\ got' = <<>>
    /\ perr' = NoError
    /\ setterCalls' = <<>>
    /\ UNCHANGED << Translators, set >>
    /\ UNCHANGED tvars

\* the head of the loop and the resolution of field i: the loop ends, an
\* untagged field is passed over, or the field's variable is read and the
\* field is skipped, fails the pass, or has its value sent to p.Translate
ParseField ==
    /\ ppc = "field"
    /\ IF i > Len(rt)
       THEN /\ ppc' = "returned"
            /\ perr' = NoError
            /\ UNCHANGED << i, got >>
            /\ UNCHANGED tvars
       ELSE IF rt[i].tag.env = <<>>
       THEN /\ i' = i + 1
            /\ UNCHANGED << ppc, got, perr >>
            /\ UNCHANGED tvars
       ELSE \E envVal \in EnvValues :
            LET r == Resolve(rt[i].tag, envVal) IN
            /\ got' = envVal
            /\ CASE r.action = "skip" ->
                      /\ i' = i + 1
                      /\ UNCHANGED << ppc, perr >>
                      /\ UNCHANGED tvars
                 [] r.action = "fail" ->
                      /\ ppc' = "returned"
                      /\ perr' = r.err
                      /\ UNCHANGED i
                      /\ UNCHANGED tvars
                 [] r.action = "use" ->
                      /\ ppc' = "translate"
                      /\ pc' = "translate"
                      /\ arg' = r.val
                      /\ val' = r.val
                      /\ ret' = NoReturn
                      /\ calls' = <<>>
                      /\ UNCHANGED << i, perr >>
    /\ UNCHANGED << Translators, rt, rv, rv0, setterCalls, set >>

\* the pass going on to the next field after an assignment has failed
ParseAssignBestEffort ==
    /\ ppc = "translate"
    /\ pc = "done"
    /\ ResetTranslate
    /\ got' = <<>>
    /\ IF ~IsNil(ret.err)
       THEN /\ ppc' = "returned"
            /\ perr' = TranslateError(rt[i].tag.env, ret.err)
            /\ UNCHANGED << rv, i, setterCalls >>
       ELSE LET a == AssignField(rt[i].type, rt[i].tag.env, rv[i], ret.out) IN
            /\ rv' = [rv EXCEPT ![i] = a.v]
            /\ setterCalls' =
                  setterCalls \o [k \in 1..Len(a.setter) |->
                                     [field |-> i, in |-> a.setter[k]]]
            /\ ppc' = "field"
            /\ i' = i + 1
            /\ perr' = IF IsNil(a.err) THEN perr ELSE a.err
    /\ UNCHANGED << Translators, rt, rv0, set >>

\* p.Translate has returned to Parse: its error ends the pass, otherwise
\* the value is assigned to field i and the loop goes on or the assignment's
\* error ends the pass
ParseAssign ==
    /\ ppc = "translate"
    /\ pc = "done"
    /\ ResetTranslate
    /\ got' = <<>>
    /\ IF ~IsNil(ret.err)
       THEN /\ ppc' = "returned"
            /\ perr' = TranslateError(rt[i].tag.env, ret.err)
            /\ UNCHANGED << rv, i, setterCalls >>
       ELSE LET a == AssignField(rt[i].type, rt[i].tag.env, rv[i], ret.out) IN
            /\ rv' = [rv EXCEPT ![i] = a.v]
            /\ setterCalls' =
                  setterCalls \o [k \in 1..Len(a.setter) |->
                                     [field |-> i, in |-> a.setter[k]]]
            /\ IF ~IsNil(a.err)
               THEN /\ ppc' = "returned"
                    /\ perr' = a.err
                    /\ UNCHANGED i
               ELSE /\ ppc' = "field"
                    /\ i' = i + 1
                    /\ UNCHANGED perr
    /\ UNCHANGED << Translators, rt, rv0, set >>

\* the caller has taken Parse's result
ParseReturn ==
    /\ ppc = "returned"
    /\ ResetParse
    /\ UNCHANGED Translators
    /\ UNCHANGED tvars

\* a caller runs SetFromString(&x, stringVal) on a zero x, as TestTypes does
SetFromStringCall ==
    /\ pc = "idle" /\ ppc = "idle"
    /\ ppc' = "returned"
    /\ \E name \in SetTypes, stringVal \in SetInputs :
         set' = [fi |-> PointerTo(Type(name)), in |-> stringVal,
                 res |-> SetFromString(PointerTo(Type(name)), Zero(Type(name)),
                                       stringVal)]
    /\ UNCHANGED << Translators, rt, rv, rv0, i, got, perr, setterCalls >>
    /\ UNCHANGED tvars

Next ==
    \/ RegisterTranslatorFunc
    \/ TranslateCall
    \/ TranslateStep
    \/ Return

Spec == Init /\ [][Next]_vars

\* the parsers a program can have built: any translators under any names
Registries == UNION { [D -> TranslatorFuncs] : D \in SUBSET Names }

\* chains of markers and escapes before a payload without either
ChainInputs == { c \o s : c \in Chains(MaxChain), s \in {<<>>, <<"a">>} }

InitFair ==
    /\ Translators \in Registries
    /\ TranslateIdle
    /\ ParseIdle

\* a caller enters p.Translate(in) with a chain
TranslateChain ==
    /\ pc = "idle" /\ ppc = "idle"
    /\ pc' = "translate"
    /\ \E in \in ChainInputs :
         /\ arg' = in
         /\ val' = in
    /\ ret' = NoReturn
    /\ calls' = <<>>
    /\ UNCHANGED Translators
    /\ UNCHANGED pvars

NextFair ==
    \/ TranslateChain
    \/ TranslateStep
    \/ Return

\* a call of Translate that has been entered keeps running: the goroutine
\* that runs it is scheduled until the call returns
SpecFair == InitFair /\ [][NextFair]_vars /\ WF_vars(TranslateStep)

\* a parser set up as the tests set theirs up, binding structs
InitParse ==
    /\ Translators = TestParser
    /\ TranslateIdle
    /\ ParseIdle

NextParse ==
    \/ ParseCall
    \/ ParseField
    \/ TranslateStep
    \/ ParseAssign
    \/ ParseReturn
    \/ SetFromStringCall

SpecParse == InitParse /\ [][NextParse]_vars

\* ------------------------------------------------- properties: Translate

\* the marker grammar `!<name>:`, name = one or more of [A-Za-z0-9_-]:
\* s begins with a marker whose name has k characters
LeadingMarker(s, k) ==
    /\ k >= 1
    /\ Len(s) >= k + 2
    /\ s[1] = "!"
    /\ \A j \in 2..(k + 1) : s[j] \in NameChar
    /\ s[k + 2] = ":"

HasMarker(s) == \E k \in 1..Len(s) : LeadingMarker(s, k)

MarkerNameOf(s) ==
    LET k == CHOOSE k \in 1..Len(s) : LeadingMarker(s, k) IN SubSeq(s, 2, k + 1)

Escaped(s) == HasPrefix(s, <<"\\", "!">>)

\* a string Translate has nothing to do on
Plain(s) == ~HasMarker(s) /\ ~Escaped(s)

\* a translator that succeeds and puts no marker of its own in its output
AddsNoMarker(tf) ==
    /\ tf.kind # "fail"
    /\ \A j \in 1..Len(tf.text) : tf.text[j] # "!"

Chars(s) == { s[j] : j \in 1..Len(s) }

\* C2 as stated: for registered translators a and b that produce no markers
\* of their own and a payload that is plain data, Translate("!a:!b:payload")
\* returns a(b(payload)).
C2_Original ==
    \A a \in DOMAIN Translators, b \in DOMAIN Translators :
        ( /\ pc = "done"
          /\ HasPrefix(arg, Marker(a) \o Marker(b))
          /\ AddsNoMarker(Translators[a])
          /\ AddsNoMarker(Translators[b])
          /\ Chars(SliceFrom(arg, Len(Marker(a) \o Marker(b)))) \cap {"!", "\\"} = {} )
        => LET payload == SliceFrom(arg, Len(Marker(a) \o Marker(b)))
               inner   == TranslatorFuncTranslate(Translators[b], payload).out
               outer   == TranslatorFuncTranslate(Translators[a], inner).out
           IN ret = [out |-> outer, err |-> NoError]

\* C2 as amended: on "!a:!b:payload" the outer translator a is invoked
\* first, on the whole remainder "!b:payload".  If its output still begins
\* with the marker "!b:", b is invoked next on what follows that marker in
\* a's output, and b's output, when plain, is the result; if a's output is
\* plain, it is the result and b is never invoked.
C2_OuterFirst ==
    \A a \in DOMAIN Translators, b \in DOMAIN Translators :
        ( /\ pc = "done"
          /\ HasPrefix(arg, Marker(a) \o Marker(b))
          /\ AddsNoMarker(Translators[a])
          /\ AddsNoMarker(Translators[b]) )
        => LET rest == SliceFrom(arg, Len(Marker(a)))
               oa   == TranslatorFuncTranslate(Translators[a], rest).out
               ob   == TranslatorFuncTranslate(Translators[b],
                                               SliceFrom(oa, Len(Marker(b)))).out
           IN /\ Len(calls) >= 1
              /\ calls[1] = [name |-> a, in |-> rest]
              /\ IF HasPrefix(oa, Marker(b))
                 THEN /\ Len(calls) >= 2
                      /\ calls[2] = [name |-> b, in |-> SliceFrom(oa, Len(Marker(b)))]
                      /\ Plain(ob) =>
                            (ret = [out |-> ob, err |-> NoError] /\ Len(calls) = 2)
                 ELSE Plain(oa) =>
                            (ret = [out |-> oa, err |-> NoError] /\ Len(calls) = 1)

\* the test's scenario: hello twice, "!a:!b:a" gives "a.."
C2_Witness ==
    /\ pc = "done"
    /\ arg = <<"!", "a", ":", "!", "b", ":", "a">>
    /\ DOMAIN Translators = Names
    /\ Translators[<<"a">>] = AppendFunc(<<".">>)
    /\ Translators[<<"b">>] = AppendFunc(<<".">>)
    /\ ret = [out |-> <<"a", ".", ".">>, err |-> NoError]
    /\ Len(calls) = 2

\* C3 as stated: every string without a well-formed leading marker is
\* returned unchanged, without error and without invoking a translator.
C3_Original ==
    (pc = "done" /\ ~HasMarker(arg))
    => (ret = [out |-> arg, err |-> NoError] /\ calls = <<>>)

\* C3 as amended: every string that neither begins with a well-formed marker
\* nor with the escape sequence backslash-"!" is returned unchanged, without
\* error and without invoking a translator, whatever the registry holds.
C3_NoMarkerUnchanged ==
    (pc = "done" /\ ~HasMarker(arg) /\ ~Escaped(arg))
    => (ret = [out |-> arg, err |-> NoError] /\ calls = <<>>)

\* a name with an invalid character, with a translator registered
C3_Witness ==
    /\ pc = "done"
    /\ arg = <<"!", ".", ":">>
    /\ <<"a">> \in DOMAIN Translators
    /\ ret.out = arg

\* C4: backslash + "!" + x gives "!" + x, without error and without invoking
\* a translator, also when "!" + x is a well-formed marker.
C4_EscapeTerminal ==
    (pc = "done" /\ Escaped(arg))
    => /\ ret = [out |-> <<"!">> \o SliceFrom(arg, 2), err |-> NoError]
       /\ calls = <<>>

\* the escaped text is a marker naming a registered translator
C4_Witness ==
    /\ pc = "done"
    /\ arg = <<"\\", "!", "a", ":">>
    /\ <<"a">> \in DOMAIN Translators
    /\ HasMarker(ret.out)
    /\ ret.out = <<"!", "a", ":">>

\* C5: when resolution is at a string with a well-formed leading marker whose
\* name is not registered, the call returns the empty string and the error
\* "no translator named <name>", and invokes no translator for it.
C5_UnknownTranslator ==
    [][ (pc = "translate" /\ HasMarker(val)
            /\ MarkerNameOf(val) \notin DOMAIN Translators)
        => /\ pc' = "done"
           /\ ret' = [out |-> <<>>,
                      err |-> Errorf("no translator named %s", <<MarkerNameOf(val)>>)]
           /\ calls' = calls ]_vars

\* the unknown name stands in the output of an earlier translator
C5_Witness ==
    /\ pc = "done"
    /\ ret.err = Errorf("no translator named %s", << <<"b">> >>)
    /\ ret.out = <<>>
    /\ Len(calls) = 1
    /\ calls[1].name = <<"a">>

\* C6: a translator's error is what Translate returns, as it is, and the
\* failing invocation is the call's last one.
C6_TranslatorError ==
    \A n \in 1..Len(calls) :
        LET r == TranslatorFuncTranslate(Translators[calls[n].name], calls[n].in) IN
        ~IsNil(r.err)
        => /\ n = Len(calls)
           /\ pc = "done"
           /\ ret = [out |-> r.out, err |-> r.err]
           /\ ret.err = Errorf("ERR: %s", <<calls[n].in>>)

\* the failure comes after an earlier translator has succeeded
C6_Witness ==
    /\ pc = "done"
    /\ Len(calls) = 2
    /\ ret.err.kind = "ERR: %s"

\* ----------------------------------------------------- properties: Parse

Optionally(tag) == tag.hasRequired /\ tag.required = "false"

Mentions(err, key) ==
    CASE err.kind = "Required ENV var not set: %v" -> err.args[1].env = key
      [] err.kind = "In field %s: %s" -> err.args[1] = key
      [] err.kind = "In field %s: struct fields should be set using JSON strings" ->
            err.args[1] = key
      [] OTHER -> FALSE

\* C7: every error Parse returns names the variable of the field it failed on.
C7_ErrorsNameKey ==
    (ppc = "returned" /\ ~IsNil(perr)) => Mentions(perr, rt[i].tag.env)

\* the field's type has the converter method on its pointer, the field
\* being of that type or a pointer to it
HasConverter(t) == t.name \in SetterTypes /\ t.ptr <= 1

\* C8: a field whose type has the converter method is set by handing the
\* translated value to the converter and in no other way, struct types and
\* pointers to struct types included.
C8_ConverterPrecedence ==
    \A j \in 1..Len(rt) :
        HasConverter(rt[j].type)
        => /\ (j < i /\ rt[j].tag.env # <<>> /\ ~Optionally(rt[j].tag))
                 => \E k \in 1..Len(setterCalls) : setterCalls[k].field = j
           /\ rv[j] # rv0[j]
                 => \E k \in 1..Len(setterCalls) : setterCalls[k].field = j

\* C9: the pass takes the fields in declaration order and ends at the first
\* that fails: a step writes no field but field i, i moves on one field at a
\* time and only without error, an error ends the pass at field i, the
\* fields after i hold what they held before the call, and a pass that has
\* returned does nothing more.
C9_InOrderFailFast ==
    /\ [](ppc # "idle" => \A j \in 1..Len(rv) : j > i => rv[j] = rv0[j])
    /\ [][ (ppc \in {"field", "translate"})
           => /\ \A j \in 1..Len(rv) : j # i => rv'[j] = rv[j]
              /\ rt' = rt /\ rv0' = rv0
              /\ i' \in {i, i + 1}
              /\ i' = i + 1 => (IsNil(perr') /\ ppc' \in {"field", "returned"})
              /\ ~IsNil(perr') => (ppc' = "returned" /\ i' = i) ]_vars
    /\ [][ ppc = "returned" => ppc' = "idle" ]_vars

\* the pass has failed at the second field and the first holds a new value
C9_Witness ==
    /\ ppc = "returned"
    /\ ~IsNil(perr)
    /\ i = 2
    /\ rv[1] # rv0[1]
    /\ rt[1].type = Type("string")
    /\ rv[1] = <<"x", ".">>

\* the table of TestTypes but for its last row: type, string, value
TypeTable ==
    { [type |-> "int64", in |-> <<"1">>, expect |-> 1],
      [type |-> "int32", in |-> <<"2">>, expect |-> 2],
      [type |-> "int16", in |-> <<"3">>, expect |-> 3],
      [type |-> "int8", in |-> <<"4">>, expect |-> 4],
      [type |-> "int", in |-> <<"5">>, expect |-> 5],
      [type |-> "string", in |-> <<"S", "t", "r", "i", "n", "g">>, expect |-> <<"S", "t", "r", "i", "n", "g">>],
      [type |-> "bool", in |-> <<"T", "r", "u", "e">>, expect |-> TRUE],
      [type |-> "bool", in |-> <<"F", "a", "l", "s", "e">>, expect |-> FALSE],
      [type |-> "float64", in |-> <<"1", ".", "1">>, expect |-> [prec |-> "float64", num |-> 11, scale |-> 1]],
      [type |-> "float32", in |-> <<"1", ".", "2">>, expect |-> [prec |-> "float32", num |-> 12, scale |-> 1]],
      [type |-> "float64", in |-> <<"1", "0">>, expect |-> [prec |-> "float64", num |-> 10, scale |-> 0]],
      [type |-> "float32", in |-> <<"1", "1">>, expect |-> [prec |-> "float32", num |-> 11, scale |-> 0]] }

\* C10: SetFromString succeeds on a pointer to each type of the table of
\* TestTypes and stores the value the string denotes; on a *time.Duration
\* with "1h" it returns no error.
C10_TypeTable ==
    /\ \A row \in TypeTable :
          (set.fi = PointerTo(Type(row.type)) /\ set.in = row.in)
          => (IsNil(set.res.err) /\ set.res.v = row.expect)
    /\ (set.fi = PointerTo(Type("Duration")) /\ set.in = <<"1", "h">>)
          => IsNil(set.res.err)

\* the position of the k-th comma of s, 0 before the first piece and
\* Len(s) + 1 after the last
Cut(s, k) ==
    LET commas == {j \in 1..Len(s) : s[j] = ","} IN
    IF k = 0 THEN 0
    ELSE IF k > Cardinality(commas) THEN Len(s) + 1
    ELSE CHOOSE j \in commas : Cardinality({m \in commas : m <= j}) = k

\* the k-th piece of s between commas, without its surrounding whitespace
TrimmedPiece(s, k) ==
    LET piece == SubSeq(s, Cut(s, k - 1) + 1, Cut(s, k) - 1)
        ink   == {j \in 1..Len(piece) : piece[j] \notin White}
    IN IF ink = {} THEN <<>>
       ELSE SubSeq(piece, CHOOSE a \in ink : \A j \in ink : a <= j,
                          CHOOSE b \in ink : \A j \in ink : b >= j)

NotEmpty(piece) == piece # <<>>

\* the list a comma-separated string denotes
ListOf(s) ==
    LET n == Cardinality({j \in 1..Len(s) : s[j] = ","}) + 1 IN
    SelectSeq([k \in 1..n |-> TrimmedPiece(s, k)], NotEmpty)

\* C11: on a *[]string SetFromString never fails and stores the pieces of
\* the value between commas, trimmed of surrounding whitespace, the empty
\* ones dropped, in their order: "val1, val2" gives ["val1", "val2"], and
\* no stored element is empty or begins or ends with whitespace.
C11_SplitTrimDrop ==
    set.fi = PointerTo(Type("[]string"))
    => /\ IsNil(set.res.err)
       /\ set.res.v = ListOf(set.in)
       /\ \A k \in 1..Len(set.res.v) :
             LET e == set.res.v[k] IN
             e # <<>> /\ e[1] \notin White /\ e[Len(e)] \notin White
       /\ set.in = <<"v", "a", "l", "1", ",", " ", "v", "a", "l", "2">>
             => set.res.v = << <<"v", "a", "l", "1">>, <<"v", "a", "l", "2">> >>

\* a list with blanks around a piece and an empty piece has been stored
C11_Witness ==
    /\ set.fi = PointerTo(Type("[]string"))
    /\ set.in = <<" ", "a", " ", ",", ",", " ", "b">>
    /\ set.res.v = << <<"a">>, <<"b">> >>
    /\ IsNil(set.res.err)

\* ---------------------------------------------- properties: termination

\* the translator under name n always puts its own marker first
NamesItself(n) ==
    /\ n \in DOMAIN Translators
    /\ Translators[n].kind = "prepend"
    /\ HasPrefix(Translators[n].text, Marker(n))

\* C12: a resolution step on a string without a well-formed leading marker
\* returns and invokes nothing; on a marker with a registered name it
\* invokes that one translator and, unless it fails, resolves its output
\* again, whatever the depth; once at the marker of a translator that names
\* itself, resolution stays at that marker and only goes deeper; and every
\* call returns unless resolution reaches the depth limit of the model.
C12_NoCycleGuard ==
    /\ [][ pc = "translate"
           => IF ~HasMarker(val)
              THEN pc' = "done" /\ calls' = calls /\ IsNil(ret'.err)
              ELSE IF MarkerNameOf(val) \notin DOMAIN Translators
              THEN pc' = "done" /\ calls' = calls /\ ~IsNil(ret'.err)
              ELSE /\ Len(calls') = Len(calls) + 1
                   /\ calls'[Len(calls')].name = MarkerNameOf(val)
                   /\ SubSeq(calls', 1, Len(calls)) = calls
                   /\ LET r == TranslatorFuncTranslate(
                                   Translators[MarkerNameOf(val)],
                                   calls'[Len(calls')].in)
                      IN IF IsNil(r.err)
                         THEN pc' = "translate" /\ val' = r.out
                         ELSE pc' = "done" /\ ret'.err = r.err ]_vars
    /\ [][ (pc = "translate" /\ HasMarker(val) /\ NamesItself(MarkerNameOf(val)))
           => /\ pc' = "translate"
              /\ HasMarker(val')
              /\ MarkerNameOf(val') = MarkerNameOf(val)
              /\ Len(calls') = Len(calls) + 1 ]_vars
    /\ (pc = "translate") ~> (pc = "done" \/ Len(calls) = MaxCalls)

\* resolution is back at its input after MaxCalls invocations of the same
\* translator on the same string, and has not returned
C12_Witness ==
    /\ pc = "translate"
    /\ Len(calls) = MaxCalls
    /\ HasMarker(arg)
    /\ NamesItself(MarkerNameOf(arg))
    /\ val = arg
    /\ \A k \in 1..Len(calls) : calls[k] = calls[1]
    /\ calls[1].name = MarkerNameOf(arg)

\* ------------------------------------------------ properties: frame

\* Parse has failed on field i after its value was translated: the value
\* is no JSON object, is broken JSON, or the field's type is unsupported
FailedInValidation ==
    /\ ppc = "returned"
    /\ set = NoSet
    /\ i \in 1..Len(rt)
    /\ \/ perr.kind = "In field %s: struct fields should be set using JSON strings"
       \/ perr.kind = "json.SyntaxError"
       \/ /\ perr.kind = "In field %s: %s"
          /\ perr.args[2].kind = "unsupported type %T"

\* C13: when Parse fails on a pointer field after its value was resolved
\* and translated (no JSON object, broken JSON, unsupported pointee type),
\* the field points at a fresh zero instance, not at what it pointed at
\* before the call and not at nil: the failed pass has changed the field.
C13_PointerOverwritten ==
    (FailedInValidation /\ rt[i].type.ptr > 0)
    => /\ rv[i] = Pointer("new", Zero(Elem(rt[i].type)))
       /\ rv[i] # rv0[i]
       /\ rv[i] # Nil

\* a pointer that held an instance holds a fresh one after broken JSON
C13_Witness ==
    /\ FailedInValidation
    /\ perr.kind = "json.SyntaxError"
    /\ rt[i].type = PointerTo(Type("TestJSONStruct"))
    /\ rv0[i] = Pointer("old", [Foo |-> <<"p">>, Bar |-> 7])
    /\ rv[i] = Pointer("new", [Foo |-> <<>>, Bar |-> 0])

====
